---------------------------- MODULE Spec2Model ----------------------------
(***************************************************************************)
(* Model of autotrader/filter/levermann_score.py: the LevermannScore       *)
(* filter.  The engine holds a bound stock snapshot (facts, analyst        *)
(* recommendation, price bars of the stock and of its index), the two      *)
(* thresholds and the cached composite self.calc.  set_stock binds a       *)
(* snapshot, analyse runs the six calculators in call order, sums them,    *)
(* caches the sum and classifies it.                                       *)
(*                                                                         *)
(* Floating point quotients are modelled as exact fractions [n, d] with    *)
(* d > 0 and compared by cross multiplication.  The input sets avoid the   *)
(* few values where a compound float expression (a quotient minus one)     *)
(* would round across a threshold.  Close prices are positive.             *)
(***************************************************************************)
EXTENDS Integers, Sequences, FiniteSets, TLC

VARIABLES stock, calc, buy, sell, ret, logged, scores

vars == <<stock, calc, buy, sell, ret, logged, scores>>

----------------------------------------------------------------------------
(* Bounds of the model *)

MaxThreshold == 2
MaxAnalysts == 2
MaxPerfLen == 3
MaxBars == 3
MaxEps == 2

----------------------------------------------------------------------------
(* Exact fractions standing for Python floats *)

Rat(n, d) == IF d < 0 THEN [n |-> -n, d |-> -d] ELSE [n |-> n, d |-> d]

RInt(k) == [n |-> k, d |-> 1]

RLess(a, b) == a.n * b.d < b.n * a.d

RSub(a, b) == [n |-> a.n * b.d - b.n * a.d, d |-> a.d * b.d]

RScale(k, a) == [n |-> k * a.n, d |-> a.d]

RDiv(a, b) == Rat(a.n * b.d, a.d * b.n)

----------------------------------------------------------------------------
(* Outcome of a call: a value, or the exception it raised *)

Ok(v) == [exc |-> "none", val |-> v]

Raise(e) == [exc |-> e, val |-> 0]

Failed(r) == r.exc # "none"

Caught == {"KeyError", "IndexError", "TypeError"}

BUY == "BUY"
SELL == "SELL"
HOLD == "HOLD"
Decisions == {BUY, SELL, HOLD}

RECURSIVE SumSeq(_)
SumSeq(s) == IF s = << >> THEN 0 ELSE s[1] + SumSeq(Tail(s))

Reverse(s) == [i \in 1..Len(s) |-> s[Len(s) + 1 - i]]

----------------------------------------------------------------------------
(* The data adapter as the calculators see it.  stock.missing is the set   *)
(* of statement kinds for which the adapter has nothing and answers None.  *)

IsNone(s, kind) == kind \in s.missing

(* close_prices[-1] *)
last_close(s) ==
    IF Len(s.bars) = 0 THEN Raise("IndexError") ELSE Ok(s.bars[Len(s.bars)].close)

----------------------------------------------------------------------------
(* calculate_trendsrating *)

RECURSIVE Nominator(_)
Nominator(datas) ==
    IF datas = << >> THEN 0
    ELSE datas[1].Recommendation * datas[1].NumberOfAnalysts + Nominator(Tail(datas))

RECURSIVE Denominator(_)
Denominator(datas) ==
    IF datas = << >> THEN 0
    ELSE datas[1].NumberOfAnalysts + Denominator(Tail(datas))

calculate_trendsrating(datas) ==
    IF Denominator(datas) = 0 THEN RInt(0)
    ELSE Rat(Nominator(datas), Denominator(datas))

(* self.stock.get_data("recommendation")['trends'][i]['distributionList'] *)
TrendDistribution(s, i) ==
    IF IsNone(s, "recommendation") THEN Raise("TypeError")
    ELSE IF ~s.hasTrends THEN Raise("KeyError")
    ELSE IF Len(s.trends) < i + 1 THEN Raise("IndexError")
    ELSE Ok(s.trends[i + 1])

----------------------------------------------------------------------------
(* Quality *)

calculate_shareholders_equity(s) ==
    IF IsNone(s, "balance") THEN Raise("TypeError")
    ELSE Ok(s.totalAssets - s.totalCurrentLiabili)

calculate_roe(s) ==
    LET equity == calculate_shareholders_equity(s)
    IN  IF Failed(equity) THEN equity
        ELSE IF equity.val # 0
             THEN IF IsNone(s, "income") THEN Raise("TypeError")
                  ELSE Ok(Rat(s.netIncome, equity.val))
             ELSE Ok(RInt(0))

calculate_ebit_margin(s) ==
    IF IsNone(s, "income") THEN Raise("TypeError")
    ELSE IF s.totalRevenue > 0
         THEN IF IsNone(s, "balance") THEN Raise("TypeError")
              ELSE Ok(Rat(s.netBeforeTaxes - s.accumulatedDepreciation, s.totalRevenue))
         ELSE Ok(RInt(0))

calculate_shareholders_equity_ratio(s) ==
    IF IsNone(s, "balance") THEN Raise("TypeError")
    ELSE IF s.totalAssets > 0
         THEN Ok(Rat(calculate_shareholders_equity(s).val, s.totalAssets))
         ELSE Ok(RInt(0))

(* 1. RoE: > 0.2 gives +1, < 0.1 gives -1 *)
RoePoints(roe) ==
    IF RLess(Rat(1, 5), roe) THEN 1
    ELSE IF RLess(roe, Rat(1, 10)) THEN -1 ELSE 0

(* 2. Ebit: > 0.12 gives +1, < 0.06 gives -1 *)
EbitPoints(ebit_margin) ==
    IF RLess(Rat(12, 100), ebit_margin) THEN 1
    ELSE IF RLess(ebit_margin, Rat(6, 100)) THEN -1 ELSE 0

(* 3. equity ratio: > 0.25 gives +1, < 0.15 gives -1 *)
EquityRatioPoints(ratio) ==
    IF RLess(Rat(25, 100), ratio) THEN 1
    ELSE IF RLess(ratio, Rat(15, 100)) THEN -1 ELSE 0

calculate_quality(s) ==
    LET roe == calculate_roe(s)
        ebit_margin == calculate_ebit_margin(s)
        shareholders_equity_ratio == calculate_shareholders_equity_ratio(s)
    IN  IF Failed(roe) THEN roe
        ELSE IF Failed(ebit_margin) THEN ebit_margin
        ELSE IF Failed(shareholders_equity_ratio) THEN shareholders_equity_ratio
        ELSE Ok(RoePoints(roe.val) + EbitPoints(ebit_margin.val)
                + EquityRatioPoints(shareholders_equity_ratio.val))

----------------------------------------------------------------------------
(* Valuation *)

Years == 5

(* the annual diluted EPS at quarter offset idx * 4 *)
EpsAnnual(s, idx) == s.dilutedEps[idx + 1]

RECURSIVE EpsSum(_, _)
EpsSum(s, idx) ==
    IF idx = Years THEN 0
    ELSE (IF EpsAnnual(s, idx) # -1 THEN EpsAnnual(s, idx) ELSE 0) + EpsSum(s, idx + 1)

EpsCounter(s) == Cardinality({idx \in 0..(Years - 1) : EpsAnnual(s, idx) # -1})

calculate_eps_avg(s) ==
    IF IsNone(s, "income") THEN Raise("TypeError")
    ELSE IF EpsCounter(s) = 0 THEN Ok(RInt(-1))
    ELSE Ok(Rat(EpsSum(s, 0), EpsCounter(s)))

(* the two ratios, or the empty sequence for None *)
calculate_price_earnings_ratios(s) ==
    LET close == last_close(s)
        eps_avg == calculate_eps_avg(s)
    IN  IF Failed(close) THEN close
        ELSE IF Failed(eps_avg) THEN eps_avg
        ELSE IF IsNone(s, "recommendation") THEN Raise("TypeError")
        ELSE IF s.eps > 0 /\ RLess(RInt(0), eps_avg.val)
             THEN Ok(<<Rat(close.val, s.eps), RDiv(RInt(close.val), eps_avg.val)>>)
             ELSE Ok(<< >>)

(* 4. Price-Earnings-Ratio, first branch wins *)
RatioPoints(ratio) ==
    IF RLess(RInt(0), ratio) \/ RLess(ratio, RInt(12)) THEN 1
    ELSE IF RLess(RInt(12), ratio) \/ RLess(ratio, RInt(0)) THEN -1 ELSE 0

calculate_rating(s) ==
    LET price_earnings_ratios == calculate_price_earnings_ratios(s)
    IN  IF Failed(price_earnings_ratios) THEN price_earnings_ratios
        ELSE IF price_earnings_ratios.val = << >> THEN Ok(-1)
        ELSE Ok(RatioPoints(price_earnings_ratios.val[1])
                + RatioPoints(price_earnings_ratios.val[2]))

----------------------------------------------------------------------------
(* Growth *)

(* eps_last after the loop over idx, idx + 1, ..., 4 started with value last *)
RECURSIVE EpsLast(_, _, _)
EpsLast(s, idx, last) ==
    IF idx = 5 THEN last
    ELSE EpsLast(s, idx + 1, IF EpsAnnual(s, idx) # -1 THEN EpsAnnual(s, idx) ELSE last)

calculate_eps_difference(s) ==
    IF IsNone(s, "recommendation") \/ IsNone(s, "income") THEN Raise("TypeError")
    ELSE IF s.eps = 0 THEN Ok(RInt(0))
    ELSE Ok(Rat(100 * (s.eps - EpsLast(s, 0, 0)), s.eps))

(* 13. > 5 gives +1, < -5 gives -1 *)
GrowingPoints(eps_last_diff_prc) ==
    IF RLess(RInt(5), eps_last_diff_prc) THEN 1
    ELSE IF RLess(eps_last_diff_prc, RInt(-5)) THEN -1 ELSE 0

calculate_growing(s) ==
    LET eps_last_diff_prc == calculate_eps_difference(s)
    IN  IF Failed(eps_last_diff_prc) THEN eps_last_diff_prc
        ELSE Ok(GrowingPoints(eps_last_diff_prc.val))

----------------------------------------------------------------------------
(* Technique.  stock.stock_perf and stock.index_perf are the 30-bar        *)
(* performance sequences as Sih.get_performance returns them.              *)

(* the loop of __compare_index_with_stock_performance from position idx on *)
RECURSIVE ComparePerf(_, _, _, _)
ComparePerf(index_perf, stock_perf, idx, perf_measure) ==
    IF idx > Len(index_perf) THEN Ok(perf_measure)
    ELSE IF idx > Len(stock_perf) THEN Raise("IndexError")
    ELSE ComparePerf(index_perf, stock_perf, idx + 1,
                     IF index_perf[idx] > stock_perf[idx]
                     THEN perf_measure + 1 ELSE perf_measure - 1)

compare_index_with_stock_performance(s) ==
    LET stock_perf == Reverse(s.stock_perf)
        index_perf == Reverse(s.index_perf)
    IN  IF Len(stock_perf) = 0 \/ Len(index_perf) = 0 THEN Ok(0)
        ELSE ComparePerf(index_perf, stock_perf, 1, 0)

(* mutant: the two signs exchanged *)
TechniquePointsSwapped(perf_measure) ==
    IF perf_measure = 3 THEN -1
    ELSE IF perf_measure = -3 THEN 1 ELSE 0

(* 12. 3 month interval compare with index *)
TechniquePoints(perf_measure) ==
    IF perf_measure = 3 THEN 1
    ELSE IF perf_measure = -3 THEN -1 ELSE 0

(* mutant: the raw comparison sum returned in place of the points *)
calculate_technique_raw(s) == compare_index_with_stock_performance(s)

calculate_technique(s) ==
    LET perf_measure == compare_index_with_stock_performance(s)
    IN  IF Failed(perf_measure) THEN perf_measure
        ELSE Ok(TechniquePoints(perf_measure.val))

----------------------------------------------------------------------------
(* Mood *)

(* np.where(bars[:, 5] < report_date)[0]: the positions dated before it *)
BarsBefore(bars, report_date) == {i \in 1..Len(bars) : bars[i].date < report_date}

MaxOf(S) == CHOOSE i \in S : \A j \in S : j <= i

(* bars[[idx, idx - 1]]: position idx - 1 wraps to the last bar at the first *)
PerfQuarterlyPrc(bars, idx) ==
    LET cur == bars[idx].close
        prev == bars[IF idx = 1 THEN Len(bars) ELSE idx - 1].close
    IN  Rat(100 * (prev - cur), prev)

calculate_impact_of_quartly_figures(s) ==
    IF IsNone(s, "income") \/ s.income = << >> THEN Ok(RInt(-1))
    ELSE IF ~s.income[1].hasReportDate THEN Raise("KeyError")
    ELSE LET last_quarterly == s.income[1].reportDate
         IN  IF BarsBefore(s.index_bars, last_quarterly) = {} THEN Raise("IndexError")
             ELSE IF BarsBefore(s.bars, last_quarterly) = {} THEN Raise("IndexError")
             ELSE Ok(RSub(PerfQuarterlyPrc(s.bars, MaxOf(BarsBefore(s.bars, last_quarterly))),
                          PerfQuarterlyPrc(s.index_bars,
                                           MaxOf(BarsBefore(s.index_bars, last_quarterly)))))

(* 6. Analysis: >= 2.5 gives +1, <= 1.5 gives -1 *)
MoodRatingPoints(rating) ==
    IF ~RLess(rating, Rat(5, 2)) THEN 1
    ELSE IF ~RLess(Rat(3, 2), rating) THEN -1 ELSE 0

(* 7. impact of quarterly figures: > 1 % gives +1, < -1 % gives -1 *)
ImpactPoints(impact_quartly) ==
    IF RLess(RInt(1), impact_quartly) THEN 1
    ELSE IF RLess(impact_quartly, RInt(-1)) THEN -1 ELSE 0

calculate_mood(s) ==
    LET datas == TrendDistribution(s, 0)
        impact_quartly == calculate_impact_of_quartly_figures(s)
    IN  IF Failed(datas) THEN datas
        ELSE IF Failed(impact_quartly) THEN impact_quartly
        ELSE Ok(MoodRatingPoints(calculate_trendsrating(datas.val))
                + ImpactPoints(impact_quartly.val))

----------------------------------------------------------------------------
(* Momentum *)

calculate_rating_differences_in_percent(s) ==
    LET datas == TrendDistribution(s, 0)
        datas_4w == TrendDistribution(s, 2)
    IN  IF Failed(datas) THEN datas
        ELSE IF Failed(datas_4w) THEN datas_4w
        ELSE LET rating == calculate_trendsrating(datas.val)
                 rating_4w == calculate_trendsrating(datas_4w.val)
             IN  IF rating.n = 0 THEN Raise("ZeroDivisionError")
                 ELSE Ok(RDiv(RScale(100, RSub(rating_4w, rating)), rating))

calculate_performance(s) ==
    IF Len(s.bars) = 0 THEN Raise("IndexError")
    ELSE LET close_6m == s.bars[(Len(s.bars) \div 2) + 1].close
             last == s.bars[Len(s.bars)].close
             first_close == s.bars[1].close
         IN  Ok(<<RSub(Rat(last, close_6m), RInt(1)), RSub(Rat(last, first_close), RInt(1))>>)

(* 8. the overall rating: > 10 gives +1, < 10 gives -1 *)
RatingChangePoints(rating_dif_prc) ==
    IF RLess(RInt(10), rating_dif_prc) THEN 1
    ELSE IF RLess(rating_dif_prc, RInt(10)) THEN -1 ELSE 0

(* 9. and 10. performance: > 0.05 gives +1, < -0.05 gives -1 *)
PerformancePoints(per_it) ==
    IF RLess(Rat(5, 100), per_it) THEN 1
    ELSE IF RLess(per_it, Rat(-5, 100)) THEN -1 ELSE 0

(* 11. raising momentum *)
RaisingMomentumPoints(perf_6m, perf_12m) ==
    IF RLess(Rat(5, 100), perf_6m)
       /\ ((RLess(perf_12m, Rat(5, 100)) /\ RLess(Rat(-5, 100), perf_12m))
           \/ RLess(perf_12m, Rat(-5, 100)))
    THEN 1
    ELSE IF RLess(perf_6m, Rat(-5, 100))
            /\ ((RLess(perf_12m, Rat(5, 100)) /\ RLess(Rat(-5, 100), perf_12m))
                \/ RLess(Rat(5, 100), perf_12m))
    THEN -1 ELSE 0

calculate_momentum(s) ==
    LET rating_dif_prc == calculate_rating_differences_in_percent(s)
        performance_list_stock == calculate_performance(s)
    IN  IF Failed(rating_dif_prc) THEN rating_dif_prc
        ELSE IF Failed(performance_list_stock) THEN performance_list_stock
        ELSE Ok(RatingChangePoints(rating_dif_prc.val)
                + PerformancePoints(performance_list_stock.val[1])
                + PerformancePoints(performance_list_stock.val[2])
                + RaisingMomentumPoints(performance_list_stock.val[1],
                                        performance_list_stock.val[2]))

----------------------------------------------------------------------------
(* analyse *)

(* the six calculators, in the order analyse calls them *)
Calculators(s) ==
    <<calculate_quality(s), calculate_rating(s), calculate_mood(s),
      calculate_momentum(s), calculate_technique(s), calculate_growing(s)>>

FirstFailure(rs) ==
    IF \E i \in 1..Len(rs) : Failed(rs[i])
    THEN CHOOSE i \in 1..Len(rs) : Failed(rs[i]) /\ \A j \in 1..(i - 1) : ~Failed(rs[j])
    ELSE Len(rs) + 1

(* the try block: the sub-scores computed before the first exception, and it *)
RunCalculators(s) ==
    LET rs == Calculators(s)
        first == FirstFailure(rs)
    IN  [exc |-> IF first > Len(rs) THEN "none" ELSE rs[first].exc,
         scores |-> [i \in 1..(first - 1) |-> rs[i].val]]

(* the levermann sum of the try block *)
Composite(subs) == SumSeq(subs)

(* mutant: the buy boundary exclusive *)
DecisionStrictBuy(c, b, s) ==
    IF c > b THEN BUY
    ELSE IF c <= s THEN SELL
    ELSE HOLD

(* mutant: the sell comparison turned around *)
DecisionSellFlipped(c, b, s) ==
    IF c >= b THEN BUY
    ELSE IF c >= s THEN SELL
    ELSE HOLD

(* the classification at the end of analyse *)
Decision(c, b, s) ==
    IF c >= b THEN BUY
    ELSE IF c <= s THEN SELL
    ELSE HOLD

----------------------------------------------------------------------------
(* Bounded input data.  A snapshot is the union of five groups of fields. *)

SeqsUpTo(S, n) == UNION {[1..k -> S] : k \in 0..n}

(* bars dated 1, 2, ... in ascending order *)
BarsOf(closes) == [i \in 1..Len(closes) |-> [close |-> closes[i], date |-> i]]

Closes == {40, 41, 44}

BaseFacts ==
    [totalAssets |-> 10, totalCurrentLiabili |-> 4, netIncome |-> 2,
     netBeforeTaxes |-> 3, accumulatedDepreciation |-> 1, totalRevenue |-> 10]

BaseEps == [eps |-> 2, dilutedEps |-> <<1, -1, -1, -1, -1>>]

Rising == <<[Recommendation |-> 5, NumberOfAnalysts |-> 1]>>
Middling == <<[Recommendation |-> 2, NumberOfAnalysts |-> 1]>>
NoAnalysts == <<[Recommendation |-> 5, NumberOfAnalysts |-> 0]>>

BaseRecommendation == [hasTrends |-> TRUE, trends |-> <<Middling, Middling, Rising>>]

BaseMarket ==
    [missing |-> {}, income |-> << >>,
     bars |-> BarsOf(<<40, 41, 44>>), index_bars |-> BarsOf(<<40, 40, 40>>)]

BasePerf == [stock_perf |-> << >>, index_perf |-> << >>]

(* every combination of the facts the quality sub-score reads *)
FactInputs ==
    [totalAssets : {0, 4, 10}, totalCurrentLiabili : {0, 4, 8}, netIncome : {-1, 0, 1, 2},
     netBeforeTaxes : {1, 2}, accumulatedDepreciation : {0, 1}, totalRevenue : {0, 10}]

(* every EPS estimate with every pattern of available and unavailable years *)
EpsInputs ==
    [eps : -1..MaxEps, dilutedEps : [1..Years -> {-1} \cup 1..MaxEps]]

Distributions ==
    SeqsUpTo([Recommendation : {1, 2, 5}, NumberOfAnalysts : 0..MaxAnalysts], 2)

RecommendationInputs ==
    {[hasTrends |-> TRUE, trends |-> <<d0, Middling, d2>>] :
        d0 \in Distributions, d2 \in Distributions}
    \cup [hasTrends : BOOLEAN, trends : SeqsUpTo({Rising, NoAnalysts}, 2)]

IncomeStatements ==
    {<< >>, <<[hasReportDate |-> FALSE, reportDate |-> 0]>>}
    \cup {<<[hasReportDate |-> TRUE, reportDate |-> d]>> : d \in 1..(MaxBars + 1)}

MarketInputs ==
    {[missing |-> {}, income |-> inc, bars |-> BarsOf(cs), index_bars |-> BarsOf(ics)] :
        inc \in IncomeStatements, cs \in SeqsUpTo(Closes, MaxBars),
        ics \in {<<40>>, <<40, 41>>, <<44, 40>>, <<41, 41, 40>>}}
    \cup {[missing |-> m, income |-> << >>, bars |-> BarsOf(cs),
           index_bars |-> BarsOf(<<40>>)] :
        m \in SUBSET {"balance", "income", "recommendation"}, cs \in {<< >>, <<40, 44>>}}

PerfInputs ==
    [stock_perf : SeqsUpTo({-1, 0, 1}, MaxPerfLen),
     index_perf : SeqsUpTo({-1, 0, 1}, MaxPerfLen)]

Snapshot(facts, eps, rec, market, perf) == facts @@ eps @@ rec @@ market @@ perf

(* the snapshots the engine is bound to: combinations of a few cases per group *)
FactCases ==
    {BaseFacts,
     [BaseFacts EXCEPT !.totalCurrentLiabili = 10],
     [BaseFacts EXCEPT !.netIncome = 0, !.netBeforeTaxes = 1, !.totalCurrentLiabili = 9]}

EpsCases ==
    {BaseEps, [BaseEps EXCEPT !.eps = 0], [BaseEps EXCEPT !.dilutedEps = <<2, 1, -1, -1, -1>>]}

RecommendationCases ==
    {BaseRecommendation,
     [hasTrends |-> TRUE, trends |-> <<Rising, Rising, Middling>>],
     [hasTrends |-> TRUE, trends |-> <<Rising, Rising, NoAnalysts>>]}

MarketCases ==
    {BaseMarket,
     [BaseMarket EXCEPT !.bars = BarsOf(<<44, 41, 40>>),
                        !.income = <<[hasReportDate |-> TRUE, reportDate |-> 3]>>]}

PerfCases == {BasePerf, [stock_perf |-> <<0, 0, 0>>, index_perf |-> <<1, 1, 1>>]}

(* malformed or incomplete data, one group at a time *)
MalformedRecommendationCases ==
    {[hasTrends |-> TRUE, trends |-> <<NoAnalysts, Rising, Rising>>],
     [hasTrends |-> TRUE, trends |-> <<Rising>>],
     [hasTrends |-> FALSE, trends |-> << >>]}

MalformedMarketCases ==
    {[BaseMarket EXCEPT !.income = <<[hasReportDate |-> TRUE, reportDate |-> 1]>>],
     [BaseMarket EXCEPT !.missing = {"balance"}],
     [BaseMarket EXCEPT !.bars = << >>]}

MalformedPerfCases == {[stock_perf |-> <<0>>, index_perf |-> <<1, 1>>]}

Snapshots ==
    {Snapshot(f, e, r, m, p) :
        f \in FactCases, e \in EpsCases, r \in RecommendationCases,
        m \in MarketCases, p \in PerfCases}
    \cup {Snapshot(BaseFacts, BaseEps, r, BaseMarket, BasePerf) :
            r \in MalformedRecommendationCases}
    \cup {Snapshot(BaseFacts, BaseEps, BaseRecommendation, m, BasePerf) :
            m \in MalformedMarketCases}
    \cup {Snapshot(BaseFacts, BaseEps, BaseRecommendation, BaseMarket, p) :
            p \in MalformedPerfCases}

Thresholds == (-MaxThreshold)..MaxThreshold

----------------------------------------------------------------------------
(* The engine *)

(* self.calc as the base filter's constructor leaves it *)
InitialCalc == 0

TypeOK ==
    /\ calc \in Int
    /\ buy \in Thresholds /\ sell \in Thresholds
    /\ ret \in Decisions \cup {"None", "ZeroDivisionError"}
    /\ logged \in BOOLEAN
    /\ Len(scores) <= 6

(* __init__ with a stock among the arguments *)
Init ==
    /\ stock \in Snapshots
    /\ buy \in Thresholds
    /\ sell \in Thresholds
    /\ calc = InitialCalc
    /\ ret = "None"
    /\ logged = FALSE
    /\ scores = << >>

(* set_stock: binds the snapshot, its index bars included, and returns None *)
SetStock(s) ==
    /\ stock' = s
    /\ ret' = "None"
    /\ logged' = FALSE
    /\ scores' = << >>
    /\ UNCHANGED <<calc, buy, sell>>

(* mutant: a failed evaluation falls back to the neutral composite *)
AnalyseResetsOnFailure ==
    LET run == RunCalculators(stock)
        levermann == IF run.exc = "none" THEN Composite(run.scores) ELSE InitialCalc
    IN  /\ calc' = levermann
        /\ scores' = run.scores
        /\ logged' = (run.exc \in Caught)
        /\ ret' = IF run.exc \in Caught \cup {"none"}
                  THEN Decision(levermann, buy, sell)
                  ELSE run.exc
        /\ UNCHANGED <<stock, buy, sell>>

(* analyse: ret is the decision returned or the exception that escaped,    *)
(* logged whether logger.exception was called, scores the sub-scores the   *)
(* try block computed.                                                     *)
Analyse ==
    LET run == RunCalculators(stock)
        levermann == IF run.exc = "none" THEN Composite(run.scores) ELSE calc
    IN  /\ calc' = levermann
        /\ scores' = run.scores
        /\ logged' = (run.exc \in Caught)
        /\ ret' = IF run.exc \in Caught \cup {"none"}
                  THEN Decision(levermann, buy, sell)
                  ELSE run.exc
        /\ UNCHANGED <<stock, buy, sell>>

Next ==
    \/ \E s \in Snapshots : SetStock(s)
    \/ Analyse

Spec == Init /\ [][Next]_vars

(* one evaluation of every input of every calculator *)
(* each group ranges over its whole input set with the other groups at    *)
(* their base, and the market inputs are met under each rating case       *)
InitInputs ==
    /\ \/ \E f \in FactInputs :
            stock = Snapshot(f, BaseEps, BaseRecommendation, BaseMarket, BasePerf)
       \/ \E e \in EpsInputs :
            stock = Snapshot(BaseFacts, e, BaseRecommendation, BaseMarket, BasePerf)
       \/ \E r \in RecommendationInputs :
            stock = Snapshot(BaseFacts, BaseEps, r, BaseMarket, BasePerf)
       \/ \E r \in RecommendationCases, m \in MarketInputs :
            stock = Snapshot(BaseFacts, BaseEps, r, m, BasePerf)
       \/ \E p \in PerfInputs :
            stock = Snapshot(BaseFacts, BaseEps, BaseRecommendation, BaseMarket, p)
    /\ buy = MaxThreshold
    /\ sell = -MaxThreshold
    /\ calc = InitialCalc
    /\ ret = "None"
    /\ logged = FALSE
    /\ scores = << >>

NextInputs == Analyse

SpecInputs == InitInputs /\ [][NextInputs]_vars

----------------------------------------------------------------------------
(* Properties.  ret # "None" holds exactly in the states analyse has just  *)
(* left, because set_stock returns None.                                   *)

Evaluated == ret # "None"

(* C1: analyse always returns BUY, SELL or HOLD; no exception escapes to   *)
(* the caller, whatever snapshot is bound.                                 *)
C1_AnalyseNeverRaises == Evaluated => ret \in Decisions

(* C2: an evaluation that logs a caught data-access failure leaves the     *)
(* cached composite as it was, whichever calculator failed, and returns    *)
(* the classification of that previous composite; an evaluation in which   *)
(* all six calculators return replaces it by the sum of the six.           *)
C2_FailureKeepsComposite ==
    [][(ret' # "None") =>
          /\ logged' => /\ Len(scores') < 6
                        /\ calc' = calc
                        /\ ret' = Decision(calc, buy, sell)
          /\ (Len(scores') = 6) =>
                 /\ ~logged'
                 /\ calc' = scores'[1] + scores'[2] + scores'[3]
                            + scores'[4] + scores'[5] + scores'[6]]_vars

(* a failed evaluation that answered SELL from a negative composite an     *)
(* earlier evaluation had cached                                           *)
C2_Witness == logged /\ Len(scores) = 4 /\ calc < 0 /\ ret = SELL

(* C3: with buy > sell the decision is BUY exactly when calc >= buy, SELL  *)
(* exactly when calc <= sell and HOLD exactly when strictly between.       *)
C3_InclusiveBoundaries ==
    (ret \in Decisions /\ buy > sell) =>
        /\ (ret = BUY) <=> (calc >= buy)
        /\ (ret = SELL) <=> (calc <= sell)
        /\ (ret = HOLD) <=> (sell < calc /\ calc < buy)

C3_Witness == ret = BUY /\ calc = buy /\ buy > sell /\ ~logged

(* valuation is unavailable: EPS estimate <= 0 or 5-year EPS average <= 0 *)
ValuationUnavailable(s) ==
    s.eps <= 0 \/ ~RLess(RInt(0), calculate_eps_avg(s).val)

(* C4: after a successful evaluation the composite is the sum of the six   *)
(* sub-scores with valuation counted as 0 when it is unavailable; the -1   *)
(* sentinel is never added.                                                *)
C4_SumLawNeutralValuation ==
    (Evaluated /\ Len(scores) = 6) =>
        calc = scores[1] + (IF ValuationUnavailable(stock) THEN 0 ELSE scores[2])
               + scores[3] + scores[4] + scores[5] + scores[6]

(* C5: with shareholders' equity 0 the return-on-equity criterion gives 0  *)
(* points and raises nothing, for every net income.                        *)
C5_ZeroEquityIsNeutral ==
    (Evaluated /\ ~IsNone(stock, "balance")
       /\ stock.totalAssets - stock.totalCurrentLiabili = 0) =>
        /\ ~Failed(calculate_roe(stock))
        /\ RoePoints(calculate_roe(stock).val) = 0

(* the latest trend snapshot is readable and counts no analyst *)
LatestHasNoAnalysts(s) ==
    /\ ~Failed(TrendDistribution(s, 0))
    /\ Denominator(TrendDistribution(s, 0).val) = 0

(* C6: with no analyst in the latest trend snapshot the trend rating is 0, *)
(* the analyst criterion of mood gives 0 points and the rating change of   *)
(* momentum does not fail.                                                 *)
C6_ZeroAnalystsIsNeutral ==
    (Evaluated /\ LatestHasNoAnalysts(stock)) =>
        /\ calculate_trendsrating(TrendDistribution(stock, 0).val) = RInt(0)
        /\ MoodRatingPoints(calculate_trendsrating(TrendDistribution(stock, 0).val)) = 0
        /\ calculate_rating_differences_in_percent(stock).exc # "ZeroDivisionError"
        /\ ret \in Decisions

(* the thresholds a configuration may be moved to *)
WiderThresholds == (-(MaxThreshold + 2))..(MaxThreshold + 2)

(* C7 as stated, for all thresholds: a BUY stays BUY or HOLD under any     *)
(* larger buy threshold, a SELL stays SELL or HOLD under any smaller sell  *)
(* threshold.                                                              *)
C7_MonotoneForAllThresholds ==
    /\ (ret = BUY) =>
          \A b \in WiderThresholds : b > buy => Decision(calc, b, sell) # SELL
    /\ (ret = SELL) =>
          \A s \in WiderThresholds : s < sell => Decision(calc, buy, s) # BUY

(* C7 amended: the first half needs sell < buy, the second half holds for  *)
(* all thresholds.                                                         *)
C7_MonotoneWhenOrdered ==
    /\ (ret = BUY /\ sell < buy) =>
          \A b \in WiderThresholds : b > buy => Decision(calc, b, sell) \in {BUY, HOLD}
    /\ (ret = SELL) =>
          \A s \in WiderThresholds : s < sell => Decision(calc, buy, s) \in {SELL, HOLD}

(* a BUY on the boundary that the next larger buy threshold turns into HOLD *)
C7_Witness ==
    ret = BUY /\ sell < buy /\ calc = buy /\ Decision(calc, buy + 1, sell) = HOLD

(* C8: every sub-score an evaluation computes lies within the number of    *)
(* criteria it evaluates.                                                  *)
C8_SubScoreRanges ==
    /\ Len(scores) >= 1 => scores[1] \in -3..3
    /\ Len(scores) >= 2 => scores[2] \in -2..2
    /\ Len(scores) >= 3 => scores[3] \in -2..2
    /\ Len(scores) >= 4 => scores[4] \in -4..4
    /\ Len(scores) >= 5 => scores[5] \in -1..1
    /\ Len(scores) >= 6 => scores[6] \in -1..1

C8_Witness == Len(scores) = 6 /\ scores[3] = 2 /\ scores[4] = -3 /\ scores[5] = 0

(* C9 as stated: technique is -1 exactly when the signed comparison sum is *)
(* +3, +1 exactly when it is -3, and 0 otherwise.                          *)
C9_TechniqueAsStated ==
    (Len(scores) >= 5) =>
        LET sum == compare_index_with_stock_performance(stock).val
        IN  /\ (scores[5] = -1) <=> (sum = 3)
            /\ (scores[5] = 1) <=> (sum = -3)

(* C9 amended: technique is +1 exactly when the sum is +3, -1 exactly when *)
(* it is -3, 0 for every other sum and when either sequence is empty.      *)
C9_TechniqueReversal ==
    (Len(scores) >= 5) =>
        LET sum == compare_index_with_stock_performance(stock).val
        IN  /\ (scores[5] = 1) <=> (sum = 3)
            /\ (scores[5] = -1) <=> (sum = -3)
            /\ (scores[5] = 0) <=> (sum \notin {3, -3})
            /\ (stock.stock_perf = << >> \/ stock.index_perf = << >>) => scores[5] = 0

C9_Witness ==
    /\ Len(scores) >= 5
    /\ compare_index_with_stock_performance(stock).val = 3
    /\ scores[5] = 1

(* the annual samples that are available, as positions 0..4 *)
AvailableYears(s) == {idx \in 0..4 : EpsAnnual(s, idx) # -1}

(* the most recent available actual EPS: the smallest offset *)
MostRecentEps(s) ==
    EpsAnnual(s, CHOOSE idx \in AvailableYears(s) : \A j \in AvailableYears(s) : idx <= j)

(* C10: growth compares the EPS estimate with the most recent available    *)
(* annual EPS: +1 above 5 percent, -1 below -5 percent, 0 for estimate 0.  *)
C10_GrowthUsesMostRecentEps ==
    (Len(scores) = 6 /\ AvailableYears(stock) # {}) =>
        scores[6] = IF stock.eps = 0 THEN 0
                    ELSE GrowingPoints(Rat(100 * (stock.eps - MostRecentEps(stock)),
                                           stock.eps))

============================================================================
